---- MODULE Spec2Model ----
(***************************************************************************)
(* Model of the RWPV consensus core of Sentinel-Net:                       *)
(*   backend/consensus/engine.py   ConsensusEngine                         *)
(*   backend/consensus/voting.py   WeightedVoter                           *)
(*   backend/shared/utils.py       compute_weighted_vote                   *)
(*                                                                         *)
(* Python floats are modelled as exact non-negative rationals <<n, d>> in  *)
(* lowest terms (d > 0): 1.05 is <<21, 20>>, 0.1 is <<1, 10>>.  Rounding   *)
(* of IEEE doubles is not modelled; equalities between weights are to be   *)
(* read as equalities of the real numbers the code computes.               *)
(*                                                                         *)
(* A Python dict that is iterated (a vote map) is a sequence of entries    *)
(* with distinct keys, in insertion order.  A dict that is only looked up  *)
(* by key (weights, a stored history entry) is a function.                 *)
(***************************************************************************)
EXTENDS Integers, Sequences, FiniteSets, TLC

VARIABLES
    weights,             \* self.weights
    prediction_history,  \* self.prediction_history
    call,                \* the last call made and its arguments
    result,              \* what the last call raised or returned
    nops,                \* number of calls made
    fb,                  \* locals of the threads inside update_weights_from_feedback
    pr,                  \* locals of the thread inside predict
    reputations,         \* ReputationManager.reputations
    prediction_records   \* ReputationManager.prediction_records

vars == <<weights, prediction_history, call, result, nops, fb, pr,
          reputations, prediction_records>>
threads == <<fb, pr>>
manager == <<reputations, prediction_records>>
sequential == <<call, result, nops>>

----------------------------------------------------------------------------
(* Bounds of the model                                                     *)

\* calls made on one engine
MaxOps == 3
\* feedback calls that return (entries of prediction_history)
MaxHist == 1
\* entries of a vote map that names an agent the engine does not track
MaxUnknownVotes == 2
\* calls made on one engine when the calls that only read are among them
MaxCalls == 2
\* rows of the feature matrix X handed to predict and batch_predict
MaxRows == 2
\* calls made on one engine whose history is read back
MaxSteps == 4
\* feedback calls among them
MaxRounds == 2
\* feedback calls of a run in which one agent is rewarded every time
MaxRun == 4
\* calls made on one ReputationManager
MaxManagerCalls == 3

----------------------------------------------------------------------------
(* Rational arithmetic standing for float arithmetic                       *)

RECURSIVE GCD(_, _)
GCD(a, b) == IF b = 0 THEN a ELSE GCD(b, a % b)

Frac(n, d) == LET g == GCD(n, d) IN <<n \div g, d \div g>>

\* products and quotients cancel crosswise first, sums and comparisons go through
\* the least common denominator, so that intermediate values stay small
FMul(x, y) ==
    LET a == Frac(x[1], y[2])
        b == Frac(y[1], x[2])
    IN <<a[1] * b[1], a[2] * b[2]>>
FDiv(x, y) == FMul(x, <<y[2], y[1]>>)
Lcd(x, y) == (x[2] \div GCD(x[2], y[2])) * y[2]
Over(x, l) == x[1] * (l \div x[2])
FAdd(x, y) == LET l == Lcd(x, y) IN Frac(Over(x, l) + Over(y, l), l)
FLess(x, y) == LET l == Lcd(x, y) IN Over(x, l) < Over(y, l)
FLeq(x, y) == LET l == Lcd(x, y) IN Over(x, l) <= Over(y, l)
FInt(n) == <<n, 1>>
Zero == <<0, 1>>
One == <<1, 1>>

\* np.clip(x, lo, hi) == minimum(maximum(x, lo), hi)
np_clip(x, lo, hi) ==
    LET m == IF FLess(x, lo) THEN lo ELSE x
    IN IF FLess(hi, m) THEN hi ELSE m

----------------------------------------------------------------------------
(* Construction parameters of ConsensusEngine (defaults of __init__)       *)

weight_reward_correct == <<21, 20>>
weight_penalty_wrong == <<9, 10>>
weight_reward_minority == <<23, 20>>
weight_penalty_both_wrong == <<17, 20>>
weight_min == <<1, 10>>
weight_max == <<5, 1>>

\* self.agents: the agents the engine was built with, in dict order
AgentOrder == <<"a1", "a2", "a3">>
Agents == {AgentOrder[i] : i \in 1..Len(AgentOrder)}
\* agent ids a caller can pass: the tracked ones and one the engine does not track
Ids == Agents \cup {"zz"}
Classes == {0, 1}

----------------------------------------------------------------------------
(* Inputs                                                                  *)

NoAgent == "-"
NoVotes == <<>>
Idle == [op |-> "init", predictions |-> NoVotes, true_label |-> 0,
         agent_name |-> NoAgent, weight |-> Zero, weights |-> <<>>, X |-> <<>>]
\* result of the last call: the exception raised ("none" when it returned), the value
\* returned, for a feedback call the weight dict as it stood after the clamp loop,
\* before renormalization (engine.py line 184), and whether the dict returned is the
\* object self.weights itself rather than a copy of it
NoResult == [err |-> "none", value |-> <<>>, clamped |-> <<>>, shares |-> FALSE]
Raised(e) == [NoResult EXCEPT !.err = e]

FeedbackConfs == {<<9, 10>>}
VoterConfs == {Zero, <<1, 2>>, One}
VoterWeights == {One, <<2, 1>>}
SetWeightValues == {<<1, 100>>, <<2, 1>>, <<10, 1>>}

\* a vote: one entry of a predictions dict, agent_name -> (predicted_class, confidence)
Vote(a, c, f) == [agent |-> a, cls |-> c, conf |-> f]

Keys(predictions) == {predictions[i].agent : i \in 1..Len(predictions)}

\* the dicts {agent_name: (class, confidence)} of at most n entries over ids, in
\* every insertion order
VoteMaps(ids, confs, n) ==
    UNION {{p \in [1..k -> {Vote(a, c, f) : a \in ids, c \in Classes, f \in confs}] :
              \A i, j \in 1..k : i # j => p[i].agent # p[j].agent}
           : k \in 0..n}

Pos(a) == CHOOSE i \in 1..Len(AgentOrder) : AgentOrder[i] = a

\* vote maps over the tracked agents, listed in the order of self.agents (the order
\* predict builds them in), and vote maps that name the untracked agent, in any order
FeedbackInputs ==
    {p \in VoteMaps(Agents, FeedbackConfs, Cardinality(Agents)) :
        \A i, j \in 1..Len(p) : i < j => Pos(p[i].agent) < Pos(p[j].agent)}
    \cup {p \in VoteMaps(Ids, FeedbackConfs, MaxUnknownVotes) : "zz" \in Keys(p)}

\* the dict as stored: key -> (class, confidence), order forgotten
AsDict(predictions) ==
    [a \in Keys(predictions) |->
        LET i == CHOOSE i \in 1..Len(predictions) : predictions[i].agent = a
        IN <<predictions[i].cls, predictions[i].conf>>]

----------------------------------------------------------------------------
(* ConsensusEngine._get_majority_prediction                                *)

\* classes.count(c)
Count(classes, c) == Cardinality({i \in 1..Len(classes) : classes[i] = c})

\* Iteration order of set(classes) in CPython for small non-negative ints:
\* hash(i) = i and the table has 8 slots, so the elements come slot by slot,
\* in ascending order, whatever the insertion order.
RECURSIVE SetIter(_)
SetIter(S) ==
    IF S = {} THEN <<>>
    ELSE LET m == CHOOSE x \in S : \A y \in S : x <= y
         IN <<m>> \o SetIter(S \ {m})

\* max(iterable, key=k): the first element, in iteration order, with the largest key
\* (le compares two keys)
MaxFirst(seq, k(_), le(_, _)) ==
    LET best == CHOOSE i \in 1..Len(seq) :
                   /\ \A j \in 1..Len(seq) : le(k(seq[j]), k(seq[i]))
                   /\ \A j \in 1..(i - 1) : ~le(k(seq[i]), k(seq[j]))
    IN seq[best]

IntLeq(x, y) == x <= y

\* classes = [pred[0] for pred in predictions.values()]
ClassList(predictions) == [i \in 1..Len(predictions) |-> predictions[i].cls]

\* max(set(classes), key=classes.count)
MostCommon(classes) ==
    LET cnt(c) == Count(classes, c)
    IN MaxFirst(SetIter({classes[i] : i \in 1..Len(classes)}), cnt, IntLeq)

\* the candidates taken in the order of the list instead of the order of the set
get_majority_prediction_list_order(predictions) ==
    LET classes == ClassList(predictions)
        cnt(c) == Count(classes, c)
    IN MaxFirst(classes, cnt, IntLeq)

get_majority_prediction(predictions) == MostCommon(ClassList(predictions))

----------------------------------------------------------------------------
(* ConsensusEngine.update_weights_from_feedback                            *)

\* the reward of a lone right agent and the penalty of a lone wrong agent exchanged
Multiplier_swapped(predicted_class, true_label, majority_class) ==
    LET agent_correct == (predicted_class = true_label)
        majority_correct == (majority_class = true_label)
    IN IF agent_correct /\ majority_correct THEN weight_reward_correct
       ELSE IF agent_correct /\ ~majority_correct THEN weight_penalty_wrong
       ELSE IF ~agent_correct /\ majority_correct THEN weight_reward_minority
       ELSE weight_penalty_both_wrong

Multiplier(predicted_class, true_label, majority_class) ==
    LET agent_correct == (predicted_class = true_label)
        majority_correct == (majority_class = true_label)
    IN IF agent_correct /\ majority_correct THEN weight_reward_correct
       ELSE IF agent_correct /\ ~majority_correct THEN weight_reward_minority
       ELSE IF ~agent_correct /\ majority_correct THEN weight_penalty_wrong
       ELSE weight_penalty_both_wrong

\* one pass of the loop body: multiply, then clamp
UpdateOne(w, v, true_label, majority_class) ==
    [w EXCEPT ![v.agent] =
        np_clip(FMul(w[v.agent], Multiplier(v.cls, true_label, majority_class)),
                weight_min, weight_max)]

\* the loop followed by a penalty for every agent that cast no vote
RECURSIVE UpdateLoop_absent_penalized(_, _, _, _, _)
UpdateLoop_absent_penalized(w, predictions, i, true_label, majority_class) ==
    IF i > Len(predictions)
    THEN [weights |-> [a \in DOMAIN w |->
                          IF a \in Keys(predictions) THEN w[a]
                          ELSE np_clip(FMul(w[a], weight_penalty_wrong),
                                       weight_min, weight_max)],
          err |-> "none"]
    ELSE IF predictions[i].agent \notin DOMAIN w THEN [weights |-> w, err |-> "KeyError"]
    ELSE UpdateLoop_absent_penalized(
             UpdateOne(w, predictions[i], true_label, majority_class),
             predictions, i + 1, true_label, majority_class)

\* the for loop over predictions.items(), from entry i on; self.weights[agent_name]
\* raises KeyError at the first agent that is no key of the weight dict, and the
\* entries before it have been written
RECURSIVE UpdateLoop(_, _, _, _, _)
UpdateLoop(w, predictions, i, true_label, majority_class) ==
    IF i > Len(predictions) THEN [weights |-> w, err |-> "none"]
    ELSE IF predictions[i].agent \notin DOMAIN w THEN [weights |-> w, err |-> "KeyError"]
    ELSE UpdateLoop(UpdateOne(w, predictions[i], true_label, majority_class),
                    predictions, i + 1, true_label, majority_class)

RECURSIVE SumOver(_, _)
SumOver(w, S) ==
    IF S = {} THEN Zero
    ELSE LET a == CHOOSE a \in S : TRUE
         IN FAdd(w[a], SumOver(w, S \ {a}))

\* the rescaling by num_agents forgotten
Normalize_unscaled(w) ==
    LET weight_sum == SumOver(w, DOMAIN w)
    IN [a \in DOMAIN w |-> FDiv(w[a], weight_sum)]

\* weight_sum = sum(self.weights.values()); num_agents = len(self.agents)
Normalize(w) ==
    LET weight_sum == SumOver(w, DOMAIN w)
        num_agents == FInt(Cardinality(Agents))
    IN [a \in DOMAIN w |-> FMul(FDiv(w[a], weight_sum), num_agents)]

\* the dict self.weights itself stored in the entry
HistoryEntry_no_copy(true_label, majority_class, predictions, w) ==
    [true_label |-> true_label, majority_class |-> majority_class,
     predictions |-> AsDict(predictions), weights_after |-> w, shares |-> TRUE]

\* lines 192-198; "weights_after": self.weights.copy() is a dict of its own
\* (shares tells whether weights_after is the object self.weights)
HistoryEntry(true_label, majority_class, predictions, w) ==
    [true_label |-> true_label, majority_class |-> majority_class,
     predictions |-> AsDict(predictions), weights_after |-> w, shares |-> FALSE]

\* self.weights[...] = ... writes into the dict object: a history entry holding that
\* object shows the new contents, an entry holding a copy does not
Written(history, w) ==
    [i \in 1..Len(history) |->
        IF history[i].shares THEN [history[i] EXCEPT !.weights_after = w]
        ELSE history[i]]

update_weights_from_feedback(true_label, predictions) ==
    /\ nops' = nops + 1
    /\ UNCHANGED <<threads, manager>>
    /\ call' = [Idle EXCEPT !.op = "update_weights_from_feedback",
                            !.true_label = true_label, !.predictions = predictions]
    /\ IF predictions = <<>>
       THEN \* max() of an empty set raises the built-in ValueError
            /\ result' = Raised("ValueError")
            /\ UNCHANGED <<weights, prediction_history, threads, manager>>
       ELSE LET majority_class == get_majority_prediction(predictions)
                loop == UpdateLoop(weights, predictions, 1, true_label, majority_class)
                normalized == Normalize(loop.weights)
            IN IF loop.err # "none"
               THEN /\ weights' = loop.weights
                    /\ result' = Raised(loop.err)
                    /\ prediction_history' = Written(prediction_history, loop.weights)
               ELSE /\ weights' = normalized
                    /\ prediction_history' = Append(Written(prediction_history, normalized),
                          HistoryEntry(true_label, majority_class, predictions, normalized))
                    /\ result' = [NoResult EXCEPT !.value = normalized,
                                                  !.clamped = loop.weights]

----------------------------------------------------------------------------
(* ConsensusEngine.set_weight, reset_weights                               *)

\* the weight stored as given, without the clamp
set_weight_unclamped(agent_name, weight) ==
    /\ nops' = nops + 1
    /\ UNCHANGED <<threads, manager>>
    /\ call' = [Idle EXCEPT !.op = "set_weight", !.agent_name = agent_name,
                            !.weight = weight]
    /\ IF agent_name \notin Agents
       THEN /\ result' = Raised("ConsensusError")
            /\ UNCHANGED <<weights, prediction_history, threads, manager>>
       ELSE /\ weights' = [weights EXCEPT ![agent_name] = weight]
            /\ result' = NoResult
            /\ prediction_history' = Written(prediction_history, weights')

set_weight(agent_name, weight) ==
    /\ nops' = nops + 1
    /\ UNCHANGED <<threads, manager>>
    /\ call' = [Idle EXCEPT !.op = "set_weight", !.agent_name = agent_name,
                            !.weight = weight]
    /\ IF agent_name \notin Agents
       THEN /\ result' = Raised("ConsensusError")
            /\ UNCHANGED <<weights, prediction_history, threads, manager>>
       ELSE /\ weights' = [weights EXCEPT ![agent_name] =
                              np_clip(weight, weight_min, weight_max)]
            /\ result' = NoResult
            /\ prediction_history' = Written(prediction_history, weights')

\* the weights rescaled to sum N instead of set to 1.0
reset_weights_renormalized ==
    /\ nops' = nops + 1
    /\ UNCHANGED <<threads, manager>>
    /\ call' = [Idle EXCEPT !.op = "reset_weights"]
    /\ weights' = Normalize(weights)
    /\ result' = NoResult
    /\ UNCHANGED prediction_history

\* the history emptied together with the weights
reset_weights_and_history ==
    /\ nops' = nops + 1
    /\ UNCHANGED <<threads, manager>>
    /\ call' = [Idle EXCEPT !.op = "reset_weights"]
    /\ weights' = [a \in Agents |-> One]
    /\ result' = NoResult
    /\ prediction_history' = <<>>

reset_weights ==
    /\ nops' = nops + 1
    /\ UNCHANGED <<threads, manager>>
    /\ call' = [Idle EXCEPT !.op = "reset_weights"]
    /\ weights' = [a \in Agents |-> One]
    /\ result' = NoResult
    /\ UNCHANGED prediction_history

----------------------------------------------------------------------------
(* WeightedVoter (voting.py) and compute_weighted_vote (utils.py)          *)

\* votes_per_class[c] += x, the key c created at the end of the dict when new;
\* the dict is a sequence of entries in insertion order
AddVote(acc, c, x) ==
    IF \E k \in 1..Len(acc) : acc[k].cls = c
    THEN [k \in 1..Len(acc) |->
            IF acc[k].cls = c THEN [acc[k] EXCEPT !.score = FAdd(acc[k].score, x)]
            ELSE acc[k]]
    ELSE Append(acc, [cls |-> c, score |-> FAdd(Zero, x)])

\* weights.get(agent_name, default)
Get(w, a, default) == IF a \in DOMAIN w THEN w[a] ELSE default

\* the loop over predictions.items() from entry i on: weight * confidence is added
\* to the score of the predicted class
RECURSIVE Tally(_, _, _, _, _)
Tally(acc, predictions, w, default, i) ==
    IF i > Len(predictions) THEN acc
    ELSE Tally(AddVote(acc, predictions[i].cls,
                       FMul(Get(w, predictions[i].agent, default), predictions[i].conf)),
               predictions, w, default, i + 1)

RECURSIVE SumScores(_, _)
SumScores(acc, i) ==
    IF i > Len(acc) THEN Zero ELSE FAdd(acc[i].score, SumScores(acc, i + 1))

ScoreOf(e) == e.score

\* the last key with the largest score instead of the first
Winner_last(acc) ==
    LET best == CHOOSE i \in 1..Len(acc) :
                   /\ \A j \in 1..Len(acc) : FLeq(acc[j].score, acc[i].score)
                   /\ \A j \in (i + 1)..Len(acc) : FLess(acc[j].score, acc[i].score)
    IN acc[best]

\* max(votes_per_class, key=votes_per_class.get): the first key, in insertion
\* order, with the largest score
Winner(acc) == MaxFirst(acc, ScoreOf, FLeq)

AsScores(acc) == [c \in {acc[k].cls : k \in 1..Len(acc)} |->
                    (CHOOSE e \in {acc[k] : k \in 1..Len(acc)} : e.cls = c).score]

\* only the agents of the vote map looked for in the weight map
KeysMatch_subset(predictions, w) == Keys(predictions) \subseteq DOMAIN w

\* set(predictions.keys()) != set(weights.keys())
KeysMatch(predictions, w) == Keys(predictions) = DOMAIN w

\* the share of the winner left out: the raw score returned
Confidence_raw(winner, total_votes, otherwise) == winner.score

\* votes_per_class[final_class] / total_votes if total_votes > 0 else <otherwise>
Confidence(winner, total_votes, otherwise) ==
    IF FLess(Zero, total_votes) THEN FDiv(winner.score, total_votes) ELSE otherwise

FMin(x, y) == IF FLess(y, x) THEN y ELSE x

\* WeightedVoter.vote(predictions, weights), from the idle state
WeightedVoter_vote(predictions, w) ==
    /\ nops = 0
    /\ nops' = 1
    /\ call' = [Idle EXCEPT !.op = "WeightedVoter.vote", !.predictions = predictions,
                            !.weights = w]
    /\ IF predictions = <<>> THEN result' = Raised("ConsensusError")
       ELSE IF ~KeysMatch(predictions, w) THEN result' = Raised("ConsensusError")
       ELSE LET votes_per_class == Tally(<<>>, predictions, w, One, 1)
                final == Winner(votes_per_class)
                total_votes == SumScores(votes_per_class, 1)
            IN result' = [NoResult EXCEPT !.value =
                   [predicted_class |-> final.cls,
                    confidence |-> Confidence(final, total_votes, Zero),
                    votes_per_class |-> AsScores(votes_per_class),
                    weight_distribution |-> w]]
    /\ UNCHANGED <<weights, prediction_history, threads, manager>>

\* the pair (final_class, normalized_confidence) compute_weighted_vote returns
weighted_vote(predictions, w) ==
    LET weighted_votes == Tally(<<>>, predictions, w, One, 1)
    IN IF weighted_votes = <<>>
       THEN [predicted_class |-> 0, confidence |-> <<1, 2>>]
       ELSE LET final == Winner(weighted_votes)
                total_weight == SumScores(weighted_votes, 1)
            IN [predicted_class |-> final.cls,
                confidence |-> FMin(Confidence(final, total_weight, <<1, 2>>), One)]

\* compute_weighted_vote(predictions, weights), from the idle state
compute_weighted_vote(predictions, w) ==
    /\ nops = 0
    /\ nops' = 1
    /\ call' = [Idle EXCEPT !.op = "compute_weighted_vote", !.predictions = predictions,
                            !.weights = w]
    /\ result' = [NoResult EXCEPT !.value = weighted_vote(predictions, w)]
    /\ UNCHANGED <<weights, prediction_history, threads, manager>>

\* WeightedVoter.get_majority_prediction(predictions), from the idle state
WeightedVoter_get_majority_prediction(predictions) ==
    /\ nops = 0
    /\ nops' = 1
    /\ call' = [Idle EXCEPT !.op = "WeightedVoter.get_majority_prediction",
                            !.predictions = predictions]
    /\ IF ClassList(predictions) = <<>> THEN result' = Raised("ConsensusError")
       ELSE result' = [NoResult EXCEPT !.value = MostCommon(ClassList(predictions))]
    /\ UNCHANGED <<weights, prediction_history, threads, manager>>

\* ConsensusEngine._get_majority_prediction(predictions), from the idle state
engine_get_majority_prediction(predictions) ==
    /\ nops = 0
    /\ nops' = 1
    /\ call' = [Idle EXCEPT !.op = "ConsensusEngine._get_majority_prediction",
                            !.predictions = predictions]
    /\ IF predictions = <<>> THEN result' = Raised("ValueError")
       ELSE result' = [NoResult EXCEPT !.value = get_majority_prediction(predictions)]
    /\ UNCHANGED <<weights, prediction_history, threads, manager>>

----------------------------------------------------------------------------
(* ConsensusEngine.predict, batch_predict                                  *)

\* what one agent does when asked about one sample: it returns (class, confidence)
\* or raises (an agent that is not trained raises ValueError)
Answer(c, f) == [ok |-> TRUE, cls |-> c, conf |-> f]
Fails == [ok |-> FALSE, cls |-> 0, conf |-> Zero]
Answers == {Answer(c, f) : c \in Classes, f \in FeedbackConfs} \cup {Fails}
\* a row of X, taken as what every agent does with it
Samples == [Agents -> Answers]
\* the rows in which only the first agent varies
FewSamples == {s \in Samples : s["a2"] = Answer(0, <<9, 10>>) /\ s["a3"] = s["a2"]}
Rows(S, n) == UNION {[1..k -> S] : k \in 0..n}

\* lines 103-106: the agents are asked in the order of self.agents; the first
\* exception ends the loop and leaves predict
RECURSIVE AskAgents(_, _, _)
AskAgents(sample, i, agent_predictions) ==
    IF i > Len(AgentOrder) THEN [votes |-> agent_predictions, err |-> "none"]
    ELSE LET a == AgentOrder[i]
         IN IF ~sample[a].ok THEN [votes |-> agent_predictions, err |-> "ValueError"]
            ELSE AskAgents(sample, i + 1,
                           Append(agent_predictions, Vote(a, sample[a].cls, sample[a].conf)))

\* the weights of a fresh engine handed out instead of the current ones
ResultWeights_initial(w) == [a \in DOMAIN w |-> One]

\* line 118: weights=self.weights.copy()
ResultWeights(w) == w

\* what predict(X) raises or returns
predict_result(X) ==
    IF Len(X) # 1 THEN Raised("ConsensusError")
    ELSE LET asked == AskAgents(X[1], 1, <<>>)
         IN IF asked.err # "none" THEN Raised(asked.err)
            ELSE LET v == weighted_vote(asked.votes, weights)
                 IN [NoResult EXCEPT !.value =
                        [predicted_class |-> v.predicted_class,
                         confidence |-> v.confidence,
                         agent_predictions |-> AsDict(asked.votes),
                         weights |-> ResultWeights(weights)]]

predict(X) ==
    /\ nops' = nops + 1
    /\ call' = [Idle EXCEPT !.op = "predict", !.X = X]
    /\ result' = predict_result(X)
    /\ UNCHANGED <<weights, prediction_history, threads, manager>>

\* lines 134-139: predict on every row in turn; the first exception leaves
\* batch_predict and the results so far are lost
RECURSIVE BatchLoop(_, _, _)
BatchLoop(X, i, results) ==
    IF i > Len(X) THEN [NoResult EXCEPT !.value = results]
    ELSE LET r == predict_result(<<X[i]>>)
         IN IF r.err # "none" THEN Raised(r.err)
            ELSE BatchLoop(X, i + 1, Append(results, r.value))

batch_predict(X) ==
    /\ nops' = nops + 1
    /\ call' = [Idle EXCEPT !.op = "batch_predict", !.X = X]
    /\ result' = BatchLoop(X, 1, <<>>)
    /\ UNCHANGED <<weights, prediction_history, threads, manager>>

----------------------------------------------------------------------------
(* ConsensusEngine.get_weights, get_agent_reputation                       *)

\* the dict self.weights itself handed to the caller
get_weights_no_copy ==
    /\ nops' = nops + 1
    /\ call' = [Idle EXCEPT !.op = "get_weights"]
    /\ result' = [NoResult EXCEPT !.value = weights, !.shares = TRUE]
    /\ UNCHANGED <<weights, prediction_history, threads, manager>>

\* return self.weights.copy()
get_weights ==
    /\ nops' = nops + 1
    /\ call' = [Idle EXCEPT !.op = "get_weights"]
    /\ result' = [NoResult EXCEPT !.value = weights, !.shares = FALSE]
    /\ UNCHANGED <<weights, prediction_history, threads, manager>>

\* the caller assigns returned[agent_name] = weight on the dict get_weights gave it;
\* the engine's dict changes with it when the two are one object
caller_sets_returned(agent_name, weight) ==
    /\ call.op = "get_weights"
    /\ nops' = nops + 1
    /\ call' = [Idle EXCEPT !.op = "returned[agent_name] = weight",
                            !.agent_name = agent_name, !.weight = weight]
    /\ result' = [result EXCEPT !.value[agent_name] = weight]
    /\ weights' = IF result.shares THEN [weights EXCEPT ![agent_name] = weight]
                  ELSE weights
    /\ UNCHANGED <<prediction_history, threads, manager>>

\* lines 215-219: the votes of the agent, from the history entries that have one
RECURSIVE AgentPredictions(_, _, _)
AgentPredictions(history, agent_name, i) ==
    IF i > Len(history) THEN <<>>
    ELSE IF agent_name \in DOMAIN history[i].predictions
         THEN <<history[i].predictions[agent_name]>>
                 \o AgentPredictions(history, agent_name, i + 1)
         ELSE AgentPredictions(history, agent_name, i + 1)

\* lines 233-236: zip(predictions_valid, true_labels) pairs the i-th vote of the
\* agent with the true label of the i-th history entry
CorrectCount(predictions_valid, true_labels) ==
    Cardinality({i \in 1..Len(predictions_valid) :
                   i <= Len(true_labels) /\ predictions_valid[i][1] = true_labels[i]})

RECURSIVE SumConfidences(_, _)
SumConfidences(predictions_valid, i) ==
    IF i > Len(predictions_valid) THEN Zero
    ELSE FAdd(predictions_valid[i][2], SumConfidences(predictions_valid, i + 1))

\* the dict get_agent_reputation returns for a tracked agent
agent_reputation(history, w, agent_name) ==
    LET agent_predictions == AgentPredictions(history, agent_name, 1)
        true_labels == [i \in 1..Len(history) |-> history[i].true_label]
        n == Len(agent_predictions)
    IN IF n = 0
       THEN [agent_name |-> agent_name, total_predictions |-> 0, accuracy |-> Zero,
             current_weight |-> w[agent_name], confidence_avg |-> Zero]
       ELSE [agent_name |-> agent_name, total_predictions |-> n,
             accuracy |-> Frac(CorrectCount(agent_predictions, true_labels), n),
             current_weight |-> w[agent_name],
             confidence_avg |-> FDiv(SumConfidences(agent_predictions, 1), FInt(n))]

get_agent_reputation(agent_name) ==
    /\ nops' = nops + 1
    /\ call' = [Idle EXCEPT !.op = "get_agent_reputation", !.agent_name = agent_name]
    /\ result' = IF agent_name \notin Agents THEN Raised("ConsensusError")
                 ELSE [NoResult EXCEPT !.value =
                          agent_reputation(prediction_history, weights, agent_name)]
    /\ UNCHANGED <<weights, prediction_history, threads, manager>>

----------------------------------------------------------------------------
(* update_weights_from_feedback and predict run by threads                 *)
(*                                                                         *)
(* The engine takes no lock.  A thread can be switched between any two     *)
(* bytecodes, so every read of self.weights[a] and every write to it is a  *)
(* step of its own; sum(...), dict.copy() and list.append run in one step. *)

FbThreads == {"f1", "f2"}

FbIdle == [pc |-> "idle", true_label |-> 0, predictions |-> NoVotes, majority_class |-> 0,
           i |-> 0, tmp |-> Zero, weight_sum |-> Zero, before |-> <<>>,
           err |-> "none", ret |-> <<>>]
PrIdle == [pc |-> "idle", i |-> 0, used |-> <<>>, snapshot |-> <<>>]

\* line 157: majority_class = self._get_majority_prediction(predictions)
fb_call(t, true_label, predictions) ==
    /\ fb[t].pc = "idle"
    /\ fb' = [fb EXCEPT ![t] =
          IF predictions = <<>>
          THEN [FbIdle EXCEPT !.pc = "raised", !.err = "ValueError", !.before = weights]
          ELSE [FbIdle EXCEPT !.pc = "mul_load", !.true_label = true_label,
                              !.predictions = predictions,
                              !.majority_class = get_majority_prediction(predictions),
                              !.i = 1, !.before = weights]]
    /\ UNCHANGED <<weights, prediction_history, pr, sequential, manager>>

FbAgent(t) == fb[t].predictions[fb[t].i].agent

\* line 178, the read of self.weights[agent_name] in  self.weights[agent_name] *= multiplier
fb_mul_load(t) ==
    /\ fb[t].pc = "mul_load"
    /\ fb' = [fb EXCEPT ![t] =
          IF FbAgent(t) \notin DOMAIN weights
          THEN [@ EXCEPT !.pc = "raised", !.err = "KeyError"]
          ELSE [@ EXCEPT !.pc = "mul_store", !.tmp = weights[FbAgent(t)]]]
    /\ UNCHANGED <<weights, prediction_history, pr, sequential, manager>>

\* line 178, the write
fb_mul_store(t) ==
    /\ fb[t].pc = "mul_store"
    /\ weights' = [weights EXCEPT ![FbAgent(t)] =
          FMul(fb[t].tmp, Multiplier(fb[t].predictions[fb[t].i].cls, fb[t].true_label,
                                     fb[t].majority_class))]
    /\ fb' = [fb EXCEPT ![t].pc = "clip_load"]
    /\ prediction_history' = Written(prediction_history, weights')
    /\ UNCHANGED <<pr, sequential, manager>>

\* lines 179-183, the read of the argument of np.clip
fb_clip_load(t) ==
    /\ fb[t].pc = "clip_load"
    /\ fb' = [fb EXCEPT ![t].pc = "clip_store", ![t].tmp = weights[FbAgent(t)]]
    /\ UNCHANGED <<weights, prediction_history, pr, sequential, manager>>

\* lines 179-183, the write of the clamped value; then the next vote, or line 186
fb_clip_store(t) ==
    /\ fb[t].pc = "clip_store"
    /\ weights' = [weights EXCEPT ![FbAgent(t)] = np_clip(fb[t].tmp, weight_min, weight_max)]
    /\ fb' = [fb EXCEPT ![t].i = @ + 1,
                        ![t].pc = IF fb[t].i < Len(fb[t].predictions)
                                  THEN "mul_load" ELSE "sum"]
    /\ prediction_history' = Written(prediction_history, weights')
    /\ UNCHANGED <<pr, sequential, manager>>

\* lines 186-187: weight_sum = sum(self.weights.values())
fb_sum(t) ==
    /\ fb[t].pc = "sum"
    /\ fb' = [fb EXCEPT ![t].weight_sum = SumOver(weights, DOMAIN weights),
                        ![t].i = 1, ![t].pc = "norm_load"]
    /\ UNCHANGED <<weights, prediction_history, pr, sequential, manager>>

\* line 189, the read of self.weights[agent_name]
fb_norm_load(t) ==
    /\ fb[t].pc = "norm_load"
    /\ fb' = [fb EXCEPT ![t].pc = "norm_store", ![t].tmp = weights[AgentOrder[fb[t].i]]]
    /\ UNCHANGED <<weights, prediction_history, pr, sequential, manager>>

\* line 189, the write; then the next agent, or line 192
fb_norm_store(t) ==
    /\ fb[t].pc = "norm_store"
    /\ weights' = [weights EXCEPT ![AgentOrder[fb[t].i]] =
          FMul(FDiv(fb[t].tmp, fb[t].weight_sum), FInt(Cardinality(Agents)))]
    /\ fb' = [fb EXCEPT ![t].i = @ + 1,
                        ![t].pc = IF fb[t].i < Len(AgentOrder) THEN "norm_load" ELSE "append"]
    /\ prediction_history' = Written(prediction_history, weights')
    /\ UNCHANGED <<pr, sequential, manager>>

\* lines 192-198: self.prediction_history.append({... self.weights.copy() ...})
fb_append(t) ==
    /\ fb[t].pc = "append"
    /\ prediction_history' = Append(prediction_history,
          HistoryEntry(fb[t].true_label, fb[t].majority_class, fb[t].predictions, weights))
    /\ fb' = [fb EXCEPT ![t].pc = "return"]
    /\ UNCHANGED <<weights, pr, sequential, manager>>

\* line 200: return self.weights.copy()
fb_return(t) ==
    /\ fb[t].pc = "return"
    /\ fb' = [fb EXCEPT ![t].pc = "done", ![t].ret = weights]
    /\ UNCHANGED <<weights, prediction_history, pr, sequential, manager>>

\* lines 99-106 of predict: the agents are asked; their answers do not touch the engine
pr_call ==
    /\ pr.pc = "idle"
    /\ pr' = [PrIdle EXCEPT !.pc = "get", !.i = 1]
    /\ UNCHANGED <<weights, prediction_history, fb, sequential, manager>>

\* lines 109-112: compute_weighted_vote reads weights.get(agent_name, 1.0), one agent
\* per pass of its loop (utils.py line 93)
pr_get ==
    /\ pr.pc = "get"
    /\ pr' = [pr EXCEPT !.used = [a \in DOMAIN pr.used \cup {AgentOrder[pr.i]} |->
                                    IF a = AgentOrder[pr.i] THEN weights[a] ELSE pr.used[a]],
                        !.i = @ + 1,
                        !.pc = IF pr.i < Len(AgentOrder) THEN "get" ELSE "copy"]
    /\ UNCHANGED <<weights, prediction_history, fb, sequential, manager>>

\* line 118: weights=self.weights.copy()
pr_copy ==
    /\ pr.pc = "copy"
    /\ pr' = [pr EXCEPT !.snapshot = weights, !.pc = "done"]
    /\ UNCHANGED <<weights, prediction_history, fb, sequential, manager>>

----------------------------------------------------------------------------
(* The engine under a sequence of calls                                    *)

Init ==
    /\ weights = [a \in Agents |-> One]
    /\ prediction_history = <<>>
    /\ call = Idle
    /\ result = NoResult
    /\ nops = 0
    /\ fb = [t \in FbThreads |-> FbIdle]
    /\ pr = PrIdle
    /\ reputations = <<>>
    /\ prediction_records = <<>>

\* (the bounds on the calls stand in front of the inputs so that no input is drawn
\* in a state where no call can be made)
Feedback ==
    /\ nops < MaxOps /\ Len(prediction_history) < MaxHist
    /\ \E true_label \in Classes, predictions \in FeedbackInputs :
          update_weights_from_feedback(true_label, predictions)

SetWeight ==
    /\ nops < MaxOps
    /\ \E agent_name \in Ids, weight \in SetWeightValues : set_weight(agent_name, weight)

ResetWeights == nops < MaxOps /\ reset_weights

Next == Feedback \/ SetWeight \/ ResetWeights

Spec == Init /\ [][Next]_vars

----------------------------------------------------------------------------
(* Runs of feedback calls in which agent a1 is right against a wrong majority *)

\* the calls (true_label, predictions) over the tracked agents in which a1 predicts
\* the true label and the majority class is another one
MinorityInputs ==
    {in \in Classes \X {p \in FeedbackInputs : Keys(p) \subseteq Agents} :
        /\ \E i \in 1..Len(in[2]) : in[2][i].agent = "a1" /\ in[2][i].cls = in[1]
        /\ get_majority_prediction(in[2]) # in[1]}

\* the run starts from the constructed engine or from a weight set by hand
StartWeight ==
    /\ nops = 0
    /\ \E agent_name \in Agents, weight \in SetWeightValues :
          set_weight(agent_name, weight)

MinorityRound ==
    /\ Len(prediction_history) < MaxRun
    /\ \E in \in MinorityInputs : update_weights_from_feedback(in[1], in[2])

NextMinority == StartWeight \/ MinorityRound

SpecMinority == Init /\ [][NextMinority]_vars

----------------------------------------------------------------------------
(* predict and batch_predict on an engine whose weights have been moved    *)

Predict ==
    /\ nops < MaxCalls
    /\ \E X \in Rows(Samples, 1) \cup Rows(FewSamples, MaxRows) : predict(X)

BatchPredict ==
    /\ nops < MaxCalls
    /\ \E X \in Rows(FewSamples, MaxRows) : batch_predict(X)

NextPredict ==
    \/ nops < MaxCalls /\ Feedback
    \/ nops < MaxCalls /\ SetWeight
    \/ nops < MaxCalls /\ ResetWeights
    \/ Predict
    \/ BatchPredict

SpecPredict == Init /\ [][NextPredict]_vars

----------------------------------------------------------------------------
(* The engine under calls that change it and calls that read it back       *)

\* vote maps over a1 and a2 in which a2 always votes and a1 may be missing, the empty
\* map and a map that names the untracked agent after a tracked one
RoundInputs ==
    {p \in FeedbackInputs : Keys(p) \subseteq {"a1", "a2"} /\ "a2" \in Keys(p)}
    \cup {NoVotes, <<Vote("a2", 0, <<9, 10>>), Vote("zz", 0, <<9, 10>>)>>}

Round ==
    /\ nops < MaxSteps /\ Len(prediction_history) < MaxRounds
    /\ \E true_label \in Classes, predictions \in RoundInputs :
          update_weights_from_feedback(true_label, predictions)

SetOne ==
    /\ nops < MaxSteps
    /\ \E weight \in SetWeightValues : set_weight("a1", weight)

Reset == nops < MaxSteps /\ reset_weights

GetWeights == nops < MaxSteps /\ get_weights

CallerSetsReturned ==
    /\ nops < MaxSteps /\ call.op = "get_weights"
    /\ caller_sets_returned("a1", <<7, 1>>)

GetAgentReputation ==
    /\ nops < MaxSteps
    /\ \E agent_name \in Ids : get_agent_reputation(agent_name)

NextRead ==
    Round \/ SetOne \/ Reset \/ GetWeights \/ CallerSetsReturned \/ GetAgentReputation

SpecRead == Init /\ [][NextRead]_vars

----------------------------------------------------------------------------
(* The voting functions applied to one input each                          *)

\* vote maps over the agents in every insertion order, and weight maps over every
\* subset of the agents
VoterInputs == VoteMaps(Agents, VoterConfs, Cardinality(Agents))
WeightMaps == UNION {[S -> VoterWeights] : S \in SUBSET Agents}

\* (the guard of the call is repeated in front of the inputs so that no input is
\* drawn in a state where no call can be made)
Vote_ ==
    /\ nops = 0
    /\ \E predictions \in VoterInputs, w \in WeightMaps : WeightedVoter_vote(predictions, w)

ComputeWeightedVote ==
    /\ nops = 0
    /\ \E predictions \in VoterInputs, w \in WeightMaps :
          compute_weighted_vote(predictions, w)

MajorityVoter ==
    /\ nops = 0
    /\ \E predictions \in VoterInputs : WeightedVoter_get_majority_prediction(predictions)

MajorityEngine ==
    /\ nops = 0
    /\ \E predictions \in VoterInputs : engine_get_majority_prediction(predictions)

NextVoter == Vote_ \/ ComputeWeightedVote \/ MajorityVoter \/ MajorityEngine

SpecVoter == Init /\ [][NextVoter]_vars

----------------------------------------------------------------------------
(* One feedback call and one predict call, run by two threads              *)

\* vote maps of all the tracked agents, the empty map and a map of the untracked agent
ConcInputs ==
    {p \in FeedbackInputs : Keys(p) = Agents} \cup {NoVotes, <<Vote("zz", 0, <<9, 10>>)>>}

FbCall ==
    /\ fb["f1"].pc = "idle"
    /\ \E true_label \in Classes, predictions \in ConcInputs :
          fb_call("f1", true_label, predictions)

FbStep ==
    \E t \in FbThreads :
        \/ fb_mul_load(t) \/ fb_mul_store(t) \/ fb_clip_load(t) \/ fb_clip_store(t)
        \/ fb_sum(t) \/ fb_norm_load(t) \/ fb_norm_store(t)
        \/ fb_append(t) \/ fb_return(t)

PrStep == pr_call \/ pr_get \/ pr_copy

NextConc == FbCall \/ FbStep \/ PrStep

SpecConc == Init /\ [][NextConc]_vars

----------------------------------------------------------------------------
(* Two feedback calls, run by two threads                                  *)

\* vote maps that hold the vote of one agent, a1 or a2
PairInputs ==
    {p \in FeedbackInputs : Len(p) = 1 /\ Keys(p) \subseteq {"a1", "a2"}}

\* the two callers are alike: the one called f1 is the one that enters first
FbCallTwo ==
    \E t \in FbThreads :
        /\ fb[t].pc = "idle"
        /\ t = "f2" => fb["f1"].pc # "idle"
        /\ \E true_label \in Classes, predictions \in PairInputs :
              fb_call(t, true_label, predictions)

NextTwo == FbCallTwo \/ FbStep

SpecTwo == Init /\ [][NextTwo]_vars

\* weights and history after a whole feedback call on a vote map of tracked agents,
\* made on an engine with weights st.weights and history st.history
AfterFeedback(st, true_label, predictions) ==
    LET majority_class == get_majority_prediction(predictions)
        normalized == Normalize(UpdateLoop(st.weights, predictions, 1, true_label,
                                           majority_class).weights)
    IN [weights |-> normalized,
        history |-> Append(st.history,
                           HistoryEntry(true_label, majority_class, predictions, normalized))]

----------------------------------------------------------------------------
(* ReputationManager (reputation.py)                                       *)

\* agent names handed to the manager, and the weights handed to it
ManagerIds == {"a1", "a2"}
ManagerWeights == {One, <<2, 1>>}

\* the call last made on the manager, with its arguments
NoCall == [op |-> "init", agent_name |-> NoAgent, predicted_class |-> 0,
           true_class |-> 0, confidence |-> Zero, majority_class |-> 0,
           weight |-> Zero]

\* AgentReputation(agent_name=..., current_weight=...): the dataclass defaults
AgentReputation(agent_name, current_weight) ==
    [agent_name |-> agent_name, total_predictions |-> 0, correct_predictions |-> 0,
     accuracy |-> Zero, current_weight |-> current_weight, confidence_avg |-> Zero,
     minority_correct |-> 0, majority_correct |-> 0, both_wrong |-> 0,
     weight_history |-> <<>>, accuracy_history |-> <<>>]

\* self.reputations is a dict: a sequence of records in insertion order
Registered(reps) == {reps[i].agent_name : i \in 1..Len(reps)}
Slot(reps, agent_name) == CHOOSE i \in 1..Len(reps) : reps[i].agent_name = agent_name

\* self.reputations[agent_name] = AgentReputation(...) without the test of line 60:
\* the record of a registered agent is replaced in its place
initialize_agent_overwrites(agent_name, initial_weight) ==
    /\ nops' = nops + 1
    /\ call' = [NoCall EXCEPT !.op = "initialize_agent", !.agent_name = agent_name,
                              !.weight = initial_weight]
    /\ reputations' =
          IF agent_name \in Registered(reputations)
          THEN [reputations EXCEPT ![Slot(reputations, agent_name)] =
                   AgentReputation(agent_name, initial_weight)]
          ELSE Append(reputations, AgentReputation(agent_name, initial_weight))
    /\ result' = NoResult
    /\ UNCHANGED <<weights, prediction_history, threads, prediction_records>>

initialize_agent(agent_name, initial_weight) ==
    /\ nops' = nops + 1
    /\ call' = [NoCall EXCEPT !.op = "initialize_agent", !.agent_name = agent_name,
                              !.weight = initial_weight]
    /\ IF agent_name \in Registered(reputations)
       THEN /\ result' = Raised("ConsensusException")
            /\ UNCHANGED reputations
       ELSE /\ reputations' = Append(reputations,
                                     AgentReputation(agent_name, initial_weight))
            /\ result' = NoResult
    /\ UNCHANGED <<weights, prediction_history, threads, prediction_records>>

\* the accuracy taken before correct_predictions is counted up
Recorded_stale_accuracy(rep, predicted_class, true_class, confidence, majority_class) ==
    LET agent_correct == predicted_class = true_class
        majority_correct == majority_class = true_class
        total == rep.total_predictions + 1
    IN [rep EXCEPT
          !.total_predictions = total,
          !.correct_predictions = IF agent_correct THEN @ + 1 ELSE @,
          !.majority_correct = IF agent_correct /\ majority_correct THEN @ + 1 ELSE @,
          !.minority_correct = IF agent_correct /\ ~majority_correct THEN @ + 1 ELSE @,
          !.both_wrong = IF ~agent_correct /\ ~majority_correct THEN @ + 1 ELSE @,
          !.accuracy = Frac(rep.correct_predictions, total),
          !.confidence_avg =
              FDiv(FAdd(FMul(rep.confidence_avg, FInt(total - 1)), confidence),
                   FInt(total))]

\* lines 89-117 of record_prediction, on the record rep
Recorded(rep, predicted_class, true_class, confidence, majority_class) ==
    LET agent_correct == predicted_class = true_class
        majority_correct == majority_class = true_class
        total == rep.total_predictions + 1
        correct == IF agent_correct THEN rep.correct_predictions + 1
                   ELSE rep.correct_predictions
    IN [rep EXCEPT
          !.total_predictions = total,
          !.correct_predictions = correct,
          !.majority_correct = IF agent_correct /\ majority_correct THEN @ + 1 ELSE @,
          !.minority_correct = IF agent_correct /\ ~majority_correct THEN @ + 1 ELSE @,
          !.both_wrong = IF ~agent_correct /\ ~majority_correct THEN @ + 1 ELSE @,
          !.accuracy = Frac(correct, total),
          !.confidence_avg =
              FDiv(FAdd(FMul(rep.confidence_avg, FInt(total - 1)), confidence),
                   FInt(total))]

\* lines 86-87: an agent not seen before is registered with the default weight
Ensured(reps, agent_name) ==
    IF agent_name \in Registered(reps) THEN reps
    ELSE Append(reps, AgentReputation(agent_name, One))

\* lines 120-128, the record appended to self.prediction_records
PredictionRecord(agent_name, predicted_class, true_class, confidence, majority_class) ==
    [agent_name |-> agent_name, predicted_class |-> predicted_class,
     true_class |-> true_class, correct |-> predicted_class = true_class,
     confidence |-> confidence, majority_class |-> majority_class]

\* every current_weight rescaled so that the weights sum to the number of agents
Renormalized(reps) ==
    LET RECURSIVE Sum(_)
        Sum(k) == IF k = 0 THEN Zero ELSE FAdd(Sum(k - 1), reps[k].current_weight)
    IN [k \in 1..Len(reps) |->
          [reps[k] EXCEPT !.current_weight =
              FMul(FDiv(@, Sum(Len(reps))), FInt(Len(reps)))]]

\* the weights renormalized after the record is written
record_prediction_renormalized(agent_name, predicted_class, true_class, confidence, majority_class) ==
    LET reps == Ensured(reputations, agent_name)
        i == Slot(reps, agent_name)
    IN /\ nops' = nops + 1
       /\ call' = [NoCall EXCEPT !.op = "record_prediction", !.agent_name = agent_name,
                     !.predicted_class = predicted_class, !.true_class = true_class,
                     !.confidence = confidence, !.majority_class = majority_class]
       /\ reputations' = Renormalized([reps EXCEPT ![i] =
             Recorded(reps[i], predicted_class, true_class, confidence, majority_class)])
       /\ prediction_records' = Append(prediction_records,
             PredictionRecord(agent_name, predicted_class, true_class, confidence,
                              majority_class))
       /\ result' = NoResult
       /\ UNCHANGED <<weights, prediction_history, threads>>

record_prediction(agent_name, predicted_class, true_class, confidence, majority_class) ==
    LET reps == Ensured(reputations, agent_name)
        i == Slot(reps, agent_name)
    IN /\ nops' = nops + 1
       /\ call' = [NoCall EXCEPT !.op = "record_prediction", !.agent_name = agent_name,
                     !.predicted_class = predicted_class, !.true_class = true_class,
                     !.confidence = confidence, !.majority_class = majority_class]
       /\ reputations' = [reps EXCEPT ![i] =
             Recorded(reps[i], predicted_class, true_class, confidence, majority_class)]
       /\ prediction_records' = Append(prediction_records,
             PredictionRecord(agent_name, predicted_class, true_class, confidence,
                              majority_class))
       /\ result' = NoResult
       /\ UNCHANGED <<weights, prediction_history, threads>>

update_weight(agent_name, new_weight) ==
    /\ nops' = nops + 1
    /\ call' = [NoCall EXCEPT !.op = "update_weight", !.agent_name = agent_name,
                              !.weight = new_weight]
    /\ IF agent_name \notin Registered(reputations)
       THEN /\ result' = Raised("ConsensusException")
            /\ UNCHANGED reputations
       ELSE /\ reputations' =
                  [reputations EXCEPT ![Slot(reputations, agent_name)] =
                      [@ EXCEPT !.current_weight = new_weight,
                                !.weight_history = Append(@, new_weight),
                                !.accuracy_history =
                                    Append(@, reputations[Slot(reputations, agent_name)].accuracy)]]
            /\ result' = NoResult
    /\ UNCHANGED <<weights, prediction_history, threads, prediction_records>>

\* sorted(items, key=lambda x: x[1], reverse=True): descending by the second
\* component; items with equal keys keep the order they had in items
RECURSIVE sorted_reverse(_)
sorted_reverse(items) ==
    IF items = <<>> THEN <<>>
    ELSE LET n == Len(items)
             x == items[n]
             s == sorted_reverse(SubSeq(items, 1, n - 1))
             k == Cardinality({j \in 1..Len(s) : FLeq(x[2], s[j][2])})
         IN SubSeq(s, 1, k) \o <<x>> \o SubSeq(s, k + 1, Len(s))

rank_agents_by_accuracy ==
    /\ nops' = nops + 1
    /\ call' = [NoCall EXCEPT !.op = "rank_agents_by_accuracy"]
    /\ result' = [NoResult EXCEPT !.value = sorted_reverse(
          [k \in 1..Len(reputations) |->
              <<reputations[k].agent_name, reputations[k].accuracy>>])]
    /\ UNCHANGED <<weights, prediction_history, threads, manager>>

rank_agents_by_weight ==
    /\ nops' = nops + 1
    /\ call' = [NoCall EXCEPT !.op = "rank_agents_by_weight"]
    /\ result' = [NoResult EXCEPT !.value = sorted_reverse(
          [k \in 1..Len(reputations) |->
              <<reputations[k].agent_name, reputations[k].current_weight>>])]
    /\ UNCHANGED <<weights, prediction_history, threads, manager>>

reset_all ==
    /\ nops' = nops + 1
    /\ call' = [NoCall EXCEPT !.op = "reset_all"]
    /\ reputations' = <<>>
    /\ prediction_records' = <<>>
    /\ result' = NoResult
    /\ UNCHANGED <<weights, prediction_history, threads>>

InitializeAgent ==
    /\ nops < MaxManagerCalls
    /\ \E agent_name \in ManagerIds, initial_weight \in ManagerWeights :
          initialize_agent(agent_name, initial_weight)

RecordPrediction ==
    /\ nops < MaxManagerCalls
    /\ \E agent_name \in ManagerIds, predicted_class \in Classes, true_class \in Classes,
          confidence \in FeedbackConfs, majority_class \in Classes :
          record_prediction(agent_name, predicted_class, true_class, confidence,
                            majority_class)

UpdateWeight ==
    /\ nops < MaxManagerCalls
    /\ \E agent_name \in ManagerIds, new_weight \in ManagerWeights :
          update_weight(agent_name, new_weight)

RankByAccuracy == nops < MaxManagerCalls /\ rank_agents_by_accuracy

RankByWeight == nops < MaxManagerCalls /\ rank_agents_by_weight

ResetAll == nops < MaxManagerCalls /\ reset_all

NextManager ==
    \/ InitializeAgent
    \/ RecordPrediction
    \/ UpdateWeight
    \/ RankByAccuracy
    \/ RankByWeight
    \/ ResetAll

SpecManager == Init /\ [][NextManager]_vars

----------------------------------------------------------------------------
(* Properties of the engine under a sequence of calls                      *)

FeedbackCall == call.op = "update_weights_from_feedback"
Returned == result.err = "none"
InBounds(x) == FLeq(<<1, 10>>, x) /\ FLeq(x, <<5, 1>>)
NumAgents == Cardinality(Agents)

\* C1: after any sequence of update_weights_from_feedback, set_weight and
\* reset_weights calls every agent's weight lies in [weight_min, weight_max],
\* the renormalized weights included.
C1_WeightsWithinBounds == \A a \in Agents : InBounds(weights[a])

\* C2: immediately after every update_weights_from_feedback call that returns,
\* the weights of all tracked agents sum to N, the number of tracked agents.
C2_SumIsN == (FeedbackCall /\ Returned) => SumOver(weights, Agents) = <<NumAgents, 1>>

\* the case of C2: a feedback call returned on weights that set_weight had moved
\* (no weight exceeds 2 after one feedback call on the initial weights)
C2_Witness ==
    /\ FeedbackCall /\ Returned
    /\ \E a \in Agents : FLess(<<2, 1>>, weights[a])
    /\ \E a, b \in Agents : weights[a] # weights[b]

\* C3: a feedback call whose vote map names an agent the engine does not track
\* fails and leaves the weight map and the prediction history as they were.
C3_UnknownAgentChangesNothing ==
    [][(/\ nops' = nops + 1
        /\ call'.op = "update_weights_from_feedback"
        /\ Keys(call'.predictions) \ Agents # {})
       => (/\ result'.err # "none"
           /\ weights' = weights
           /\ prediction_history' = prediction_history)]_vars

\* the case of C3: the unknown id came after a known id and the call failed
C3_Witness ==
    /\ FeedbackCall /\ ~Returned
    /\ Len(call.predictions) = 2
    /\ call.predictions[1].agent \in Agents
    /\ call.predictions[2].agent \notin Agents

\* C4: a feedback call with an empty vote map fails with a consensus-class error
\* and leaves the weight map and the prediction history as they were.
C4_EmptyVotesConsensusError ==
    [][(/\ nops' = nops + 1
        /\ call'.op = "update_weights_from_feedback"
        /\ call'.predictions = <<>>)
       => (/\ result'.err = "ConsensusError"
           /\ weights' = weights
           /\ prediction_history' = prediction_history)]_vars

\* the case of C4: a feedback call with an empty vote map was made
C4_Witness == FeedbackCall /\ call.predictions = <<>> /\ ~Returned

\* C6: every agent present in the votes of a returning feedback call falls in one
\* of four buckets by (predicted == true_label, majority == true_label) and its
\* weight before renormalization is clamp(weight * m, 0.1, 5.0) with m = 1.05,
\* 1.15, 0.90, 0.85.
C6_FourBuckets ==
    [][(/\ nops' = nops + 1
        /\ call'.op = "update_weights_from_feedback"
        /\ result'.err = "none")
       => \A i \in 1..Len(call'.predictions) :
            LET v == call'.predictions[i]
                majority == prediction_history'[Len(prediction_history')].majority_class
                right == (v.cls = call'.true_label)
                majority_right == (majority = call'.true_label)
                m == CASE right /\ majority_right -> <<105, 100>>
                       [] right /\ ~majority_right -> <<115, 100>>
                       [] ~right /\ majority_right -> <<90, 100>>
                       [] ~right /\ ~majority_right -> <<85, 100>>
                x == <<weights[v.agent][1] * m[1], weights[v.agent][2] * m[2]>>
                want == IF FLess(x, <<1, 10>>) THEN <<1, 10>>
                        ELSE IF FLess(<<5, 1>>, x) THEN <<5, 1>> ELSE x
            IN /\ FLeq(want, result'.clamped[v.agent])
               /\ FLeq(result'.clamped[v.agent], want)]_vars

\* the case of C6: one returning feedback call put agents in the reward_minority
\* and the both-wrong buckets, and a weight was clamped
C6_Witness ==
    /\ FeedbackCall /\ Returned
    /\ \E i, j \in 1..Len(call.predictions) :
          /\ call.predictions[i].cls = call.true_label
          /\ call.predictions[j].cls # call.true_label
          /\ prediction_history[Len(prediction_history)].majority_class # call.true_label
    /\ \E a \in Agents : result.clamped[a] = <<5, 1>>

\* a feedback call that has just returned
FeedbackReturns ==
    /\ nops' = nops + 1
    /\ call'.op = "update_weights_from_feedback"
    /\ result'.err = "none"

\* C11: renormalization rescales the weight of every tracked agent by the same
\* factor N / sum(weights), the agents absent from the vote map included, and an
\* absent agent receives no reward or penalty multiplier.
C11_AllRescaledAbsentUntouched ==
    [][FeedbackReturns =>
         LET clamped == result'.clamped
             total == FAdd(clamped["a1"], FAdd(clamped["a2"], clamped["a3"]))
         IN /\ \A a \in Agents \ Keys(call'.predictions) : clamped[a] = weights[a]
            /\ \A a \in Agents :
                  FMul(weights'[a], total) = FMul(clamped[a], <<NumAgents, 1>>)]_vars

\* the case of C11: a feedback call returned, an agent cast no vote and its weight
\* was rescaled
C11_Witness ==
    /\ FeedbackCall /\ Returned
    /\ \E a \in Agents \ Keys(call.predictions) : weights[a] # result.clamped[a]

\* C12: an agent that receives reward_minority (x1.15) in every feedback call of a
\* long enough run ends with weight equal to weight_max (5.0), and its weight never
\* exceeds weight_max during the run.  A run is long enough as soon as one more
\* x1.15 takes the weight to weight_max or past it.
C12_SaturatesAtMax ==
    [][FeedbackReturns =>
         /\ FLeq(weights'["a1"], <<5, 1>>)
         /\ FLeq(<<5, 1>>, FMul(weights["a1"], <<115, 100>>)) => weights'["a1"] = <<5, 1>>]_vars

\* C13: after a feedback call the weight of an agent whose predicted class equals
\* the true label is strictly greater than before the call, also when every agent
\* predicted correctly.
C13_CorrectAgentGains ==
    [][FeedbackReturns =>
         \A i \in 1..Len(call'.predictions) :
            LET v == call'.predictions[i]
            IN v.cls = call'.true_label => FLess(weights[v.agent], weights'[v.agent])]_vars

\* C14: after a feedback call the weight of an agent whose predicted class differs
\* from the true label is less than or equal to its weight before the call, from
\* any reachable prior weight map.
C14_WrongAgentNeverGains ==
    [][FeedbackReturns =>
         \A i \in 1..Len(call'.predictions) :
            LET v == call'.predictions[i]
            IN v.cls # call'.true_label => FLeq(weights'[v.agent], weights[v.agent])]_vars


----------------------------------------------------------------------------
(* Properties of predict and batch_predict                                 *)

PredictCall == call.op = "predict"
\* the agents that answer the only row of X
Responders(X) == {a \in Agents : X[1][a].ok}

\* C15: predict and batch_predict never change the weight map or the prediction
\* history, whether they return or raise, and the weights in every returned
\* ConsensusResult are the engine's weight map at the time of the call.
C15_PredictReadsOnly ==
    [][(nops' = nops + 1 /\ call'.op \in {"predict", "batch_predict"})
       => /\ weights' = weights
          /\ prediction_history' = prediction_history
          /\ (call'.op = "predict" /\ result'.err = "none")
                => result'.value.weights = weights
          /\ (call'.op = "batch_predict" /\ result'.err = "none")
                => /\ Len(result'.value) = Len(call'.X)
                   /\ \A i \in 1..Len(result'.value) :
                         result'.value[i].weights = weights]_vars

\* the case of C15: batch_predict returned two results on weights that a feedback
\* call had moved
C15_Witness ==
    /\ call.op = "batch_predict" /\ Returned
    /\ Len(result.value) = 2
    /\ prediction_history # <<>>
    /\ \E a, b \in Agents : result.value[2].weights[a] # result.value[2].weights[b]

\* C16: in predict an agent whose prediction call fails is left out of the vote set
\* and the call still returns a ConsensusResult computed from the remaining
\* agents, as long as one agent responds; the failure is never propagated.
C16_FailedAgentExcluded ==
    (/\ PredictCall /\ Len(call.X) = 1
     /\ Responders(call.X) # {} /\ Responders(call.X) # Agents)
    => /\ result.err = "none"
       /\ DOMAIN result.value.agent_predictions = Responders(call.X)

\* C17: predict returns a NoVotesError, and no ConsensusResult, when the vote set
\* it collected is empty because no agent responded.
C17_NoVotesError ==
    (PredictCall /\ Len(call.X) = 1 /\ Responders(call.X) = {})
    => (result.err = "NoVotesError" /\ result.value = <<>>)

----------------------------------------------------------------------------
(* Properties of the calls that read the engine back                       *)

AllOnes == [a \in {"a1", "a2", "a3"} |-> <<1, 1>>]

\* C18: after reset_weights, get_weights returns exactly 1.0 for every tracked
\* agent and for no other key, whatever feedback and set_weight calls came before.
C18_ResetThenGetAllOnes ==
    [][(nops' = nops + 1 /\ call.op = "reset_weights" /\ call'.op = "get_weights")
       => (result'.err = "none" /\ result'.value = AllOnes)]_vars

\* the case of C18: get_weights answered all ones although the one feedback call
\* made had left other weights
C18_Witness ==
    /\ call.op = "get_weights" /\ result.value = AllOnes
    /\ Len(prediction_history) = 1
    /\ prediction_history[1].weights_after["a2"] # <<1, 1>>

\* C19: reset_weights leaves the historical counters unchanged: the prediction
\* history and each agent's total_predictions, accuracy and confidence_avg as
\* get_agent_reputation reports them are the same before and after the reset; only
\* current_weight changes.
C19_ResetKeepsCounters ==
    [][(nops' = nops + 1 /\ call'.op = "reset_weights")
       => /\ prediction_history' = prediction_history
          /\ \A a \in Agents :
                LET before == agent_reputation(prediction_history, weights, a)
                    after == agent_reputation(prediction_history', weights', a)
                IN /\ after.total_predictions = before.total_predictions
                   /\ after.accuracy = before.accuracy
                   /\ after.confidence_avg = before.confidence_avg
                   /\ after.current_weight = <<1, 1>>]_vars

\* the case of C19: a reset after two feedback calls, one of them without a vote of
\* a1, one of them with a right vote of a1
C19_Witness ==
    /\ call.op = "reset_weights"
    /\ Len(prediction_history) = 2
    /\ agent_reputation(prediction_history, weights, "a1").total_predictions = 1
    /\ agent_reputation(prediction_history, weights, "a1").accuracy = <<1, 1>>
    /\ prediction_history[2].weights_after # weights

----------------------------------------------------------------------------
(* Properties of set_weight, of the history and of the reported reputation *)

\* clamp(v, 0.1, 5.0), written out
Clamped(v) ==
    IF FLess(v, <<1, 10>>) THEN <<1, 10>> ELSE IF FLess(<<5, 1>>, v) THEN <<5, 1>> ELSE v

\* C21: set_weight(agent, v) on a tracked agent sets that agent's weight to
\* clamp(v, weight_min, weight_max) and leaves every other agent's weight and the
\* history unchanged; on an untracked agent it raises a consensus error and changes
\* nothing.
C21_SetWeightFrame ==
    [][(nops' = nops + 1 /\ call'.op = "set_weight")
       => /\ prediction_history' = prediction_history
          /\ IF call'.agent_name \in {"a1", "a2", "a3"}
             THEN /\ result'.err = "none"
                  /\ weights'[call'.agent_name] = Clamped(call'.weight)
                  /\ \A a \in Agents \ {call'.agent_name} : weights'[a] = weights[a]
             ELSE /\ result'.err = "ConsensusError"
                  /\ weights' = weights]_vars

\* the case of C21: a weight above weight_max set on an engine with a history entry
C21_Witness ==
    /\ call.op = "set_weight" /\ call.agent_name = "a2" /\ call.weight = <<10, 1>>
    /\ weights["a2"] = <<5, 1>>
    /\ prediction_history # <<>>
    /\ weights["a1"] # <<1, 1>>

\* the unweighted mode of the classes in a vote map, the lower label on a tie
Mode(predictions) ==
    IF Cardinality({i \in 1..Len(predictions) : predictions[i].cls = 1})
         > Cardinality({i \in 1..Len(predictions) : predictions[i].cls = 0})
    THEN 1 ELSE 0

\* C22: the prediction history is append-only: every feedback call that returns
\* appends exactly one entry holding the true label, the majority class and a
\* weights_after map equal to the map the call returns; no operation removes or
\* reorders entries, and the weights_after of an earlier entry is not changed by
\* later feedback, set_weight or reset_weights calls.
C22_HistoryAppendOnly ==
    [][IF nops' = nops + 1 /\ call'.op = "update_weights_from_feedback"
          /\ result'.err = "none"
       THEN /\ Len(prediction_history') = Len(prediction_history) + 1
            /\ SubSeq(prediction_history', 1, Len(prediction_history)) = prediction_history
            /\ LET e == prediction_history'[Len(prediction_history')]
               IN /\ e.true_label = call'.true_label
                  /\ e.majority_class = Mode(call'.predictions)
                  /\ e.weights_after = result'.value
       ELSE prediction_history' = prediction_history]_vars

\* the case of C22: a second feedback call returned and the first entry still shows
\* the weights of the first call
C22_Witness ==
    /\ FeedbackCall /\ Returned
    /\ Len(prediction_history) = 2
    /\ prediction_history[1].weights_after # prediction_history[2].weights_after
    /\ prediction_history[2].weights_after = weights

\* C23: a renormalization that produces a weight outside [weight_min, weight_max]
\* makes the feedback call fail with an internal-consistency fault: no feedback
\* call returns, or stores in the history, a weight map with a weight out of range.
C23_OutOfRangeFailsFast ==
    [][(nops' = nops + 1 /\ call'.op = "update_weights_from_feedback"
        /\ result'.err = "none")
       => /\ \A a \in Agents : InBounds(result'.value[a])
          /\ \A a \in Agents :
                InBounds(prediction_history'[Len(prediction_history')].weights_after[a])]_vars

\* the history entries that hold a vote of agent a
EntriesOf(a) == {i \in 1..Len(prediction_history) : a \in DOMAIN prediction_history[i].predictions}
\* those in which the vote is the true label of the same entry
RightEntriesOf(a) ==
    {i \in EntriesOf(a) :
        prediction_history[i].predictions[a][1] = prediction_history[i].true_label}

\* C28: after any sequence of feedback calls, also with vote maps that hold only
\* some of the agents, get_agent_reputation reports total_predictions equal to the
\* number of history entries that contain the agent and accuracy equal to the
\* fraction of those entries in which the agent's class is the true label of that
\* same entry.
C28_ReputationMatchesHistory ==
    (call.op = "get_agent_reputation" /\ Returned)
    => LET a == call.agent_name
           n == Cardinality(EntriesOf(a))
       IN /\ result.value.total_predictions = n
          /\ n > 0 => result.value.accuracy[1] * n
                         = Cardinality(RightEntriesOf(a)) * result.value.accuracy[2]

----------------------------------------------------------------------------
(* Properties of the voting functions                                      *)

MajorityCall ==
    call.op \in {"ConsensusEngine._get_majority_prediction",
                 "WeightedVoter.get_majority_prediction"}
VoteCall == call.op \in {"WeightedVoter.vote", "compute_weighted_vote"}

\* number of votes for class c, whatever the order of the votes
VotesFor(predictions, c) ==
    Cardinality({a \in Keys(predictions) :
                   \E i \in 1..Len(predictions) :
                      predictions[i].agent = a /\ predictions[i].cls = c})

\* C7: the majority class is the unweighted mode of the predicted classes,
\* independent of weights, confidences and the order of the votes; when classes
\* 0 and 1 have the same number of votes, class 0 is chosen.
C7_MajorityIsMode ==
    (MajorityCall /\ Returned) =>
        result.value = IF VotesFor(call.predictions, 1) > VotesFor(call.predictions, 0)
                       THEN 1 ELSE 0

\* the case of C7: a tie in which the vote for class 1 is listed first
C7_Witness ==
    /\ call.op = "ConsensusEngine._get_majority_prediction" /\ Returned
    /\ Len(call.predictions) = 2
    /\ call.predictions[1].cls = 1 /\ call.predictions[2].cls = 0
    /\ result.value = 0

\* score of class c: the sum of weight * confidence over the agents voting c
RECURSIVE ScoreSum(_, _, _)
ScoreSum(predictions, w, S) ==
    IF S = {} THEN Zero
    ELSE LET i == CHOOSE i \in S : TRUE
         IN FAdd(FMul(w[predictions[i].agent], predictions[i].conf),
                 ScoreSum(predictions, w, S \ {i}))
Score(c) ==
    ScoreSum(call.predictions, call.weights,
             {i \in 1..Len(call.predictions) : call.predictions[i].cls = c})
Voted == {call.predictions[i].cls : i \in 1..Len(call.predictions)}
TotalScore == FAdd(Score(0), Score(1))
\* the class of the first vote in the map among the given classes
FirstListed(S) ==
    call.predictions[CHOOSE i \in 1..Len(call.predictions) :
                        /\ call.predictions[i].cls \in S
                        /\ \A j \in 1..(i - 1) : call.predictions[j].cls \notin S].cls
Lowest(S) == CHOOSE c \in S : \A d \in S : c <= d
Best == {c \in Voted : \A d \in Voted : FLeq(Score(d), Score(c))}
\* a vote call on a non-empty vote map whose agents all have a weight
ScoredVote ==
    /\ VoteCall /\ Returned
    /\ call.predictions # <<>>
    /\ Keys(call.predictions) \subseteq DOMAIN call.weights

\* C8 as claimed: the weighted vote returns the class with the largest score and,
\* when two classes have equal scores, the lower class label, whatever the order
\* of the votes.
C8_TieLowerLabel == ScoredVote => result.value.predicted_class = Lowest(Best)

\* C8 as amended: the weighted vote returns the class with the largest score and,
\* when two classes have equal scores, the class whose first vote comes first in
\* the vote map.
C8_TieFirstListed == ScoredVote => result.value.predicted_class = FirstListed(Best)

\* the case of C8: two classes with equal positive scores, class 1 listed first
C8_Witness ==
    /\ ScoredVote
    /\ Voted = {0, 1} /\ Score(0) = Score(1) /\ FLess(Zero, Score(0))
    /\ call.predictions[1].cls = 1
    /\ result.value.predicted_class = 1

\* C9 as claimed: the confidence is score[winner] / sum of all scores and lies in
\* [0, 1]; when the sum of all scores is 0 the confidence is 0 and the smallest
\* class label is returned.
C9_ZeroSumIsZero ==
    ScoredVote =>
        /\ FLeq(Zero, result.value.confidence) /\ FLeq(result.value.confidence, One)
        /\ IF TotalScore = Zero
           THEN /\ result.value.confidence = Zero
                /\ result.value.predicted_class = Lowest(Voted)
           ELSE FMul(result.value.confidence, TotalScore)
                   = Score(result.value.predicted_class)

\* C9 as amended: the confidence is score[winner] / sum of all scores and lies in
\* [0, 1]; when the sum of all scores is 0, WeightedVoter.vote returns confidence
\* 0 and compute_weighted_vote (the vote inside predict) returns 0.5, and both
\* return the class of the first vote in the map.
C9_ZeroSumByFunction ==
    ScoredVote =>
        /\ FLeq(Zero, result.value.confidence) /\ FLeq(result.value.confidence, One)
        /\ IF TotalScore = Zero
           THEN /\ result.value.confidence =
                      IF call.op = "WeightedVoter.vote" THEN Zero ELSE <<1, 2>>
                /\ result.value.predicted_class = call.predictions[1].cls
           ELSE FMul(result.value.confidence, TotalScore)
                   = Score(result.value.predicted_class)

\* the case of C9: compute_weighted_vote met a vote map whose scores sum to 0,
\* class 1 listed first
C9_Witness ==
    /\ ScoredVote /\ TotalScore = Zero /\ call.op = "compute_weighted_vote"
    /\ Voted = {0, 1} /\ call.predictions[1].cls = 1
    /\ result.value = [predicted_class |-> 1, confidence |-> <<1, 2>>]

\* C10: WeightedVoter.vote fails with a consensus error and returns no result
\* whenever the vote map is empty or its key set differs from the key set of the
\* weight map.
C10_VoteValidates ==
    (/\ call.op = "WeightedVoter.vote"
     /\ \/ call.predictions = <<>>
        \/ Keys(call.predictions) # DOMAIN call.weights)
    => (result.err = "ConsensusError" /\ result.value = <<>>)

\* the case of C10: the weight map has an agent the vote map lacks
C10_Witness ==
    /\ call.op = "WeightedVoter.vote"
    /\ call.predictions # <<>>
    /\ Keys(call.predictions) \subseteq DOMAIN call.weights
    /\ Keys(call.predictions) # DOMAIN call.weights
    /\ result.err = "ConsensusError"

----------------------------------------------------------------------------
(* Properties of concurrent calls                                          *)

\* C5: the weight snapshot predict uses and returns while a feedback call runs is
\* never a partially updated map: it is the whole map from before the feedback
\* call or the whole renormalized map from after it.
C5_SnapshotNeverPartial ==
    (pr.pc = "done" /\ fb["f1"].pc = "done")
    => /\ pr.snapshot \in {fb["f1"].before, fb["f1"].ret}
       /\ pr.used \in {fb["f1"].before, fb["f1"].ret}

\* the case of C5: predict returned after the feedback call began, and the feedback
\* call returned
C5_Witness ==
    /\ pr.pc = "done" /\ fb["f1"].pc = "done"
    /\ pr.snapshot # fb["f1"].before

BothReturned == fb["f1"].pc = "done" /\ fb["f2"].pc = "done"

\* C30: when two feedback calls run concurrently on one engine, the final weight
\* map and the history are those of the two calls run one after the other in some
\* order: no multiplier is lost or applied twice, the final weights sum to N and
\* exactly two history entries are appended.
C30_TwoFeedbackSerializable ==
    BothReturned =>
        \E first \in FbThreads :
            LET second == CHOOSE t \in FbThreads : t # first
                fresh == [weights |-> [a \in Agents |-> <<1, 1>>], history |-> <<>>]
                s1 == AfterFeedback(fresh, fb[first].true_label, fb[first].predictions)
                s2 == AfterFeedback(s1, fb[second].true_label, fb[second].predictions)
            IN weights = s2.weights /\ prediction_history = s2.history

----------------------------------------------------------------------------
(* Properties of the ReputationManager                                     *)

\* the record of agent_name in reps, the fresh record when it has none
RecordOf(reps, agent_name) ==
    IF agent_name \in Registered(reps) THEN reps[Slot(reps, agent_name)]
    ELSE AgentReputation(agent_name, One)

\* C24: initialize_agent for an agent that is already registered raises an
\* already-exists error and leaves the existing reputation record (counters,
\* weight, histories) unchanged, also when the agent was created lazily by
\* record_prediction.
C24_ReinitializeRaises ==
    [][(/\ nops' = nops + 1
        /\ call'.op = "initialize_agent"
        /\ call'.agent_name \in Registered(reputations))
       => /\ result'.err = "ConsensusException"
          /\ reputations' = reputations
          /\ prediction_records' = prediction_records]_vars

\* the case of C24: initialize_agent raised for an agent that only record_prediction
\* had created, called with a weight other than the one the record holds
C24_Witness ==
    /\ nops = 2
    /\ call.op = "initialize_agent" /\ call.weight = <<2, 1>>
    /\ result.err = "ConsensusException"
    /\ Len(prediction_records) = 1
    /\ prediction_records[1].agent_name = call.agent_name
    /\ RecordOf(reputations, call.agent_name).total_predictions = 1
    /\ RecordOf(reputations, call.agent_name).current_weight = One

Buckets(rep) == rep.majority_correct + rep.minority_correct + rep.both_wrong

\* C25: each record_prediction call increases the agent's total_predictions by one,
\* increases correct_predictions by one exactly when predicted_class = true_class,
\* and increments exactly the counter of the bucket the outcome falls in, so that
\* for every outcome one bucket counter changes.
C25_OneBucketPerRecord ==
    [][(nops' = nops + 1 /\ call'.op = "record_prediction")
       => LET old == RecordOf(reputations, call'.agent_name)
              new == RecordOf(reputations', call'.agent_name)
          IN /\ new.total_predictions = old.total_predictions + 1
             /\ new.correct_predictions = old.correct_predictions
                   + (IF call'.predicted_class = call'.true_class THEN 1 ELSE 0)
             /\ Buckets(new) = Buckets(old) + 1]_vars

\* C26: record_prediction for agent A changes only A's reputation record: the
\* records of all other registered agents are unchanged, and no agent's
\* current_weight is renormalized by the call.
C26_RecordTouchesOneAgent ==
    [][(nops' = nops + 1 /\ call'.op = "record_prediction")
       => /\ Registered(reputations') = Registered(reputations) \cup {call'.agent_name}
          /\ \A a \in Registered(reputations) \ {call'.agent_name} :
                RecordOf(reputations', a) = RecordOf(reputations, a)
          /\ \A a \in Registered(reputations') :
                RecordOf(reputations', a).current_weight
                   = RecordOf(reputations, a).current_weight]_vars

\* the case of C26: a prediction recorded for one agent while another agent is
\* registered with a weight that is not the average
C26_Witness ==
    /\ call.op = "record_prediction"
    /\ \E a \in Registered(reputations) \ {call.agent_name} :
          RecordOf(reputations, a).current_weight = <<2, 1>>
    /\ RecordOf(reputations, call.agent_name).current_weight = One

\* agent names compared as strings: "a1" < "a2" < "a3"
IdBefore(a, b) == Pos(a) < Pos(b)

\* C27: rank_agents_by_accuracy and rank_agents_by_weight return every registered
\* agent exactly once, in descending order of the chosen field, and agents with
\* equal values appear in ascending agent-id order regardless of the order in
\* which they were registered.
C27_RankTiesByAgentId ==
    call.op \in {"rank_agents_by_accuracy", "rank_agents_by_weight"} =>
        LET ranked == result.value
            Field(a) == IF call.op = "rank_agents_by_accuracy"
                        THEN RecordOf(reputations, a).accuracy
                        ELSE RecordOf(reputations, a).current_weight
        IN /\ Len(ranked) = Len(reputations)
           /\ {ranked[k][1] : k \in 1..Len(ranked)} = Registered(reputations)
           /\ \A k \in 1..Len(ranked) : ranked[k][2] = Field(ranked[k][1])
           /\ \A j, k \in 1..Len(ranked) :
                 j < k => \/ FLess(ranked[k][2], ranked[j][2])
                          \/ /\ ranked[j][2] = ranked[k][2]
                             /\ IdBefore(ranked[j][1], ranked[k][1])

\* C29: in every reachable state of a ReputationManager and for every registered
\* agent: correct_predictions <= total_predictions, majority_correct +
\* minority_correct = correct_predictions, correct_predictions + both_wrong <=
\* total_predictions, and accuracy = correct_predictions / total_predictions
\* (0 when total_predictions is 0).
C29_CountersConsistent ==
    \A k \in 1..Len(reputations) :
        LET rep == reputations[k]
        IN /\ rep.correct_predictions <= rep.total_predictions
           /\ rep.majority_correct + rep.minority_correct = rep.correct_predictions
           /\ rep.correct_predictions + rep.both_wrong <= rep.total_predictions
           /\ rep.accuracy = IF rep.total_predictions = 0 THEN Zero
                             ELSE Frac(rep.correct_predictions, rep.total_predictions)

\* the case of C29: an agent with one prediction right against the majority, one
\* wrong together with the majority and one wrong against it
C29_Witness ==
    \E k \in 1..Len(reputations) :
        /\ reputations[k].total_predictions = 3
        /\ reputations[k].minority_correct = 1
        /\ reputations[k].both_wrong = 1
        /\ reputations[k].accuracy = <<1, 3>>

====
